---- MODULE Spec2Model ----
(***************************************************************************)
(* Model of the chat backend of stupid_chat_bot: the chat WebSocket        *)
(* endpoint with its ConnectionManager, the message-limit service, the     *)
(* chat-session service/repositories behind the sessions REST API, and    *)
(* the refresh-token rotation of the auth service, the e-mail verification *)
(* tokens, the admin API, the statistics repository and the report         *)
(* scheduler.                                                              *)
(*                                                                         *)
(* Python values: None is the string "None"; a dict is a function whose    *)
(* DOMAIN is its key set; a call that raises returns a record whose exc    *)
(* field names the exception (exc = "None" for a normal return).           *)
(***************************************************************************)
EXTENDS Integers, Sequences, FiniteSets, TLC

VARIABLES
    chat_sessions,        \* table chat_sessions: id -> [user_id, title, meta]
    messages,             \* table messages, rows in created_at order
    next_session_id,      \* the next fresh primary key (uuid4 never repeats)
    users,                \* table users: id -> user row
    user_sessions,        \* table user_sessions (stored refresh tokens)
    next_token,           \* the next fresh raw refresh token
    now,                  \* the clock (datetime.utcnow), in days
    exchanged,            \* raw refresh tokens that were exchanged for new ones
    verification_tokens,  \* table email_verification_tokens, in created_at order
    report_schedule,      \* table report_schedule: its single row, if any
    scheduler,            \* scheduler_service.scheduler
    current_schedule,     \* scheduler_service._current_schedule
    orphaned_schedulers,  \* started schedulers the module no longer refers to
    broadcast,            \* the broadcast_to_session call that is suspended in a send
    session_connections,  \* ConnectionManager.session_connections
    connection_sessions,  \* ConnectionManager.connection_sessions
    sent,                 \* per websocket: what the last handler sent to it
    ai_calls,             \* number of calls of ai_service.generate_response_stream
    last                  \* the handler that ran last, its inputs and outcome

vars == <<chat_sessions, messages, next_session_id, users, user_sessions,
          next_token, now, exchanged, verification_tokens, report_schedule,
          scheduler, current_schedule, orphaned_schedulers, broadcast,
          session_connections, connection_sessions, sent, ai_calls, last>>

chatVars == <<chat_sessions, messages, next_session_id, session_connections,
              connection_sessions, sent, ai_calls>>
\* The tables of the other services.
schedulerVars == <<report_schedule, scheduler, current_schedule, orphaned_schedulers>>
extraVars == <<verification_tokens, schedulerVars, broadcast>>
authVars == <<user_sessions, next_token, now, exchanged, extraVars>>

None == "None"
\* None of an int | None value (limits, ids): no valid value is negative.
NoneInt == 0 - 1

\* No row in report_schedule / no cached schedule.
NoSchedule ==
    [exists |-> FALSE, enabled |-> FALSE, schedule_type |-> None, day_of_week |-> None]
\* scheduler = None.
NoScheduler == [exists |-> FALSE, running |-> FALSE, jobs |-> {}]

\* No broadcast_to_session call is under way.
NoBroadcast ==
    [active |-> FALSE, by |-> 0, session_id |-> 0, index |-> 0,
     delivered |-> {}, start_members |-> {}]

\* The scheduler module as imported, over an empty report_schedule table,
\* and no broadcast under way.
SchedulerIdle ==
    /\ broadcast = NoBroadcast
    /\ report_schedule = NoSchedule
    /\ scheduler = NoScheduler
    /\ current_schedule = NoSchedule
    /\ orphaned_schedulers = {}

----------------------------------------------------------------------------
(* Bounds of the model.                                                    *)

MaxConn == 2          \* websockets 1..MaxConn
MaxSessions == 2      \* chat-session ids 1..MaxSessions
MaxPriorRows == 5     \* user rows the database file holds at start
MaxTokens == 3        \* raw refresh tokens 1..MaxTokens
MaxTime == 8          \* the clock runs 0..MaxTime days
MaxStatRows == 3      \* message rows the statistics are taken over
MaxAdds == 3          \* add_to_history calls beyond a full history window

Connections == 1 .. MaxConn
CookieUsers == {"u1", "u2"}
AuthUsers == {"a1", "a2", "a3"}
Contents == {"hi"}
NewChatTitle == "New Chat"     \* CreateSessionRequest.title default
Titles == {"renamed"}          \* titles a PATCH sets

----------------------------------------------------------------------------
(* Python dict helpers.                                                    *)

EmptyDict == [k \in {} |-> None]
DictSet(d, k, v) == [x \in (DOMAIN d) \cup {k} |-> IF x = k THEN v ELSE d[x]]
DictDel(d, k) == [x \in (DOMAIN d) \ {k} |-> d[x]]
DictGet(d, k, default) == IF k \in DOMAIN d THEN d[k] ELSE default

SetMin(S) == CHOOSE x \in S : \A y \in S : x <= y
Max0(a, b) == IF a >= b THEN a ELSE b

Raise(e) == [exc |-> e]
Raised(r) == r.exc # None

\* history[-n:]
LastN(s, n) == IF Len(s) <= n THEN s ELSE SubSeq(s, Len(s) - n + 1, Len(s))

RECURSIVE SeqRemoveFirst(_, _)
SeqRemoveFirst(s, x) ==
    IF s = <<>> THEN <<>>
    ELSE IF Head(s) = x THEN Tail(s)
    ELSE <<Head(s)>> \o SeqRemoveFirst(Tail(s), x)

SeqToSet(s) == {s[i] : i \in 1 .. Len(s)}


----------------------------------------------------------------------------
(* Users table rows and the message-limit service.                         *)

ANONYMOUS == "anonymous"
USER == "user"
UNLIMITED == "unlimited"
ADMIN == "admin"

AnonymousLimit == 5
UserLimit == 50

\* DEFAULT_LIMITS.get(role): None (unlimited) for unlimited, admin and any
\* role the table does not hold.
DEFAULT_LIMITS(role) ==
    CASE role = ANONYMOUS -> AnonymousLimit
      [] role = USER -> UserLimit
      [] OTHER -> NoneInt

\* The columns the Message model maps (TimestampMixin adds the two dates).
MessageColumns ==
    {"id", "session_id", "sender", "content", "meta", "created_at", "updated_at"}

\* The keyword parameters MessageRepository.create_message accepts.
CreateMessageParams == {"session_id", "sender", "content", "meta"}

\* The chat-session ids a cookie user owns.
SessionsOf(user_id) ==
    {s \in DOMAIN chat_sessions : chat_sessions[s].user_id = user_id}

CountRows(rows, P(_)) == Len(SelectSeq(rows, P))

\* MessageLimitsService.count_user_messages over the message rows `rows`. The authenticated branch builds
\* its query from Message.user_id, an attribute the Message model does not
\* define: evaluating it raises AttributeError.
count_user_messages(rows, cookie_user_id, auth_user_id) ==
    IF auth_user_id # None
    THEN IF "user_id" \in MessageColumns
         THEN [exc |-> None,
               value |-> CountRows(rows, LAMBDA m : m.user_id = auth_user_id /\ m.sender = "user")]
         ELSE Raise("AttributeError")
    ELSE IF cookie_user_id # None
    THEN [exc |-> None,
          value |-> CountRows(rows, LAMBDA m : m.session_id \in SessionsOf(cookie_user_id)
                                         /\ m.sender = "user")]
    ELSE [exc |-> None, value |-> 0]

\* MessageLimitsService.get_user_limit: (limit, role, requires_verification).
get_user_limit(auth_user_id) ==
    IF auth_user_id # None /\ auth_user_id \in DOMAIN users
    THEN LET user == users[auth_user_id] IN
         IF user.is_blocked
         THEN [limit |-> 0, role |-> user.role, requires_verification |-> FALSE]
         ELSE IF user.provider = "email" /\ ~user.is_email_verified
         THEN [limit |-> 0, role |-> user.role, requires_verification |-> TRUE]
         ELSE IF user.message_limit # NoneInt
         THEN [limit |-> user.message_limit, role |-> user.role,
               requires_verification |-> FALSE]
         ELSE [limit |-> DEFAULT_LIMITS(user.role), role |-> user.role,
               requires_verification |-> FALSE]
    ELSE [limit |-> DEFAULT_LIMITS(ANONYMOUS), role |-> ANONYMOUS,
          requires_verification |-> FALSE]

\* A can_send that still allows a message when nothing remains.
CanSendWithinInclusive(limit, used) ==
    IF limit = NoneInt THEN TRUE ELSE limit - used >= 0

\* can_send of get_limit_info before the verification override.
CanSendWithin(limit, used) ==
    IF limit = NoneInt THEN TRUE ELSE Max0(0, limit - used) > 0

\* MessageLimitsService.get_limit_info.
get_limit_info(rows, cookie_user_id, auth_user_id) ==
    LET l == get_user_limit(auth_user_id)
        c == count_user_messages(rows, cookie_user_id, auth_user_id)
    IN  IF Raised(c) THEN c
        ELSE [exc |-> None,
              limit |-> l.limit,
              used |-> c.value,
              remaining |-> IF l.limit = NoneInt THEN NoneInt
                            ELSE Max0(0, l.limit - c.value),
              is_unlimited |-> (l.limit = NoneInt),
              can_send |-> IF l.requires_verification THEN FALSE
                           ELSE CanSendWithin(l.limit, c.value),
              user_role |-> l.role,
              requires_verification |-> l.requires_verification]

\* MessageLimitsService.check_can_send returns (limit_info.can_send, limit_info).
check_can_send(rows, cookie_user_id, auth_user_id) ==
    get_limit_info(rows, cookie_user_id, auth_user_id)

----------------------------------------------------------------------------
(* Repositories and ChatService.                                           *)

DEFAULT_SESSION_TITLE == "Default Chat Session"
DEFAULT_SESSION_META == [is_default |-> TRUE]

HistoryLoadLimit == 50

\* A default-session test that goes by the title instead of the meta flag.
is_default_session_by_title(session_id) ==
    /\ session_id \in DOMAIN chat_sessions
    /\ chat_sessions[session_id].title = DEFAULT_SESSION_TITLE

\* SessionRepository.is_default_session: meta.get("is_default", False) is True.
is_default_session(session_id) ==
    IF session_id \notin DOMAIN chat_sessions THEN FALSE
    ELSE DictGet(chat_sessions[session_id].meta, "is_default", FALSE) = TRUE

\* An ownership test that only looks whether the session exists.
belongs_to_user_unchecked(session_id, user_id) ==
    session_id \in DOMAIN chat_sessions

\* SessionRepository.belongs_to_user.
belongs_to_user(session_id, user_id) ==
    IF session_id \notin DOMAIN chat_sessions THEN FALSE
    ELSE chat_sessions[session_id].user_id = user_id

\* A lookup by id alone, which forgets the owner.
get_with_messages_any_owner(session_id, user_id) ==
    IF session_id \in DOMAIN chat_sessions THEN session_id ELSE NoneInt

\* SessionRepository.get_with_messages with user_id given: the id of the
\* session found, NoneInt when no row has this id and this owner.
get_with_messages(session_id, user_id) ==
    IF session_id \in DOMAIN chat_sessions
       /\ chat_sessions[session_id].user_id = user_id
    THEN session_id
    ELSE NoneInt

\* ChatSession.to_dict.
SessionToDict(session_id) ==
    [id |-> session_id,
     title |-> chat_sessions[session_id].title,
     metadata |-> chat_sessions[session_id].meta]

\* SessionRepository.get_or_create_default: the oldest default session of
\* the user (ids grow with creation time), else a new row.
get_or_create_default(user_id) ==
    LET defaults == {s \in SessionsOf(user_id) :
                        DictGet(chat_sessions[s].meta, "is_default", FALSE) = TRUE}
    IN  IF defaults # {}
        THEN [id |-> SetMin(defaults), table |-> chat_sessions, created |-> FALSE]
        ELSE [id |-> next_session_id,
              table |-> DictSet(chat_sessions, next_session_id,
                                [user_id |-> user_id,
                                 title |-> DEFAULT_SESSION_TITLE,
                                 meta |-> DEFAULT_SESSION_META]),
              created |-> TRUE]

HistoryEntry(row) ==
    [type |-> "message", sender |-> row.sender, content |-> row.content]

RECURSIVE SeqMapHistory(_)
SeqMapHistory(rows) ==
    IF rows = <<>> THEN <<>>
    ELSE <<HistoryEntry(Head(rows))>> \o SeqMapHistory(Tail(rows))

\* MessageRepository.get_recent + to_conversation_history: the newest
\* `limit` rows of the session, oldest first.
to_conversation_history(session_id, limit) ==
    SeqMapHistory(LastN(SelectSeq(messages, LAMBDA m : m.session_id = session_id),
                        limit))

\* ChatService.get_or_create_session.
get_or_create_session(user_id, session_id) ==
    LET found == IF session_id # NoneInt
                 THEN get_with_messages(session_id, user_id)
                 ELSE NoneInt
        dflt == get_or_create_default(user_id)
        id == IF found # NoneInt THEN found ELSE dflt.id
    IN  [id |-> id,
         history |-> to_conversation_history(id, HistoryLoadLimit),
         table |-> IF found # NoneInt THEN chat_sessions ELSE dflt.table,
         created |-> (found = NoneInt /\ dflt.created)]

\* MessageRepository.create_message called with the keyword arguments
\* `kwargs`: Python raises TypeError for a keyword the signature lacks.
create_message(rows, kwargs, row) ==
    IF kwargs \subseteq CreateMessageParams
    THEN [exc |-> None, rows |-> Append(rows, row)]
    ELSE Raise("TypeError")

\* ChatService.save_user_message: passes user_id=user_id on to create_message.
save_user_message(rows, session_id, content) ==
    create_message(rows, {"session_id", "sender", "content", "user_id"},
                   [session_id |-> session_id, sender |-> "user", content |-> content])

\* ChatService.save_assistant_message.
save_assistant_message(rows, session_id, content) ==
    create_message(rows, {"session_id", "sender", "content", "meta"},
                   [session_id |-> session_id, sender |-> "assistant",
                    content |-> content])

----------------------------------------------------------------------------
(* ConnectionManager.                                                      *)

HistoryWindow == 50

NothingSent == [c \in Connections |-> <<>>]

\* ConnectionManager.register.
register(sc, cs, ws, session_id, cookie_user_id, auth_user_id, history) ==
    [sc |-> DictSet(sc, session_id, Append(DictGet(sc, session_id, <<>>), ws)),
     cs |-> DictSet(cs, ws, [session_id |-> session_id,
                             cookie_user_id |-> cookie_user_id,
                             auth_user_id |-> auth_user_id,
                             history |-> history])]

\* ConnectionManager.disconnect.
disconnect(sc, cs, ws) ==
    IF ws \notin DOMAIN cs THEN [sc |-> sc, cs |-> cs]
    ELSE LET sid == cs[ws].session_id
             lst == IF sid \in DOMAIN sc THEN SeqRemoveFirst(sc[sid], ws) ELSE <<>>
         IN  [sc |-> IF sid \notin DOMAIN sc THEN sc
                     ELSE IF lst = <<>> THEN DictDel(sc, sid)
                     ELSE DictSet(sc, sid, lst),
              cs |-> DictDel(cs, ws)]

\* The connections broadcast_to_session(session_id, ...) sends to, in order.
\* A broadcast that reaches every registered connection of every session.
BroadcastTargetsAll(sc, session_id) ==
    LET all == UNION {SeqToSet(sc[s]) : s \in DOMAIN sc}
    IN  CHOOSE q \in [1 .. Cardinality(all) -> all] : SeqToSet(q) = all

BroadcastTargets(sc, session_id) == DictGet(sc, session_id, <<>>)

RECURSIVE SendEach(_, _, _)
SendEach(snt, targets, message) ==
    IF targets = <<>> THEN snt
    ELSE SendEach([snt EXCEPT ![Head(targets)] = Append(@, message)],
                  Tail(targets), message)

\* ConnectionManager.broadcast_to_session.
broadcast_to_session(sc, snt, session_id, message) ==
    SendEach(snt, BroadcastTargets(sc, session_id), message)

\* ConnectionManager.send_to_client.
send_to_client(snt, ws, message) == [snt EXCEPT ![ws] = Append(@, message)]

\* An add_to_history that appends and never trims.
add_to_history_untrimmed(cs, ws, message) ==
    IF ws \notin DOMAIN cs THEN cs
    ELSE [cs EXCEPT ![ws].history = Append(@, message)]

\* ConnectionManager.add_to_history.
add_to_history(cs, ws, message) ==
    IF ws \notin DOMAIN cs THEN cs
    ELSE [cs EXCEPT ![ws].history = LastN(Append(@, message), HistoryWindow)]

RECURSIVE BroadcastChunks(_, _, _, _)
BroadcastChunks(sc, snt, session_id, chunks) ==
    IF chunks = <<>> THEN snt
    ELSE BroadcastChunks(sc,
             broadcast_to_session(sc, snt, session_id,
                 [type |-> "ai_stream", content |-> Head(chunks), sender |-> "assistant"]),
             session_id, Tail(chunks))

----------------------------------------------------------------------------
(* websocket_endpoint.                                                     *)

MessageKinds == {"valid", "invalid_json", "not_object"}
ChunkSeqs == {<<>>, <<"a", "b">>}

\* A limit test that lets the message at the limit through.
LimitRejectsOffByOne(limit_info) ==
    ~limit_info.is_unlimited /\ limit_info.used > limit_info.limit

\* `if not can_send:` of the message loop.
LimitRejects(limit_info) == ~limit_info.can_send

UserMessage(content) ==
    [type |-> "message", content |-> content, sender |-> "user", timestamp |-> None]

AiMessage(content) ==
    [type |-> "message", content |-> content, sender |-> "assistant",
     timestamp |-> None]

LimitExceeded(limit_info) ==
    [type |-> "limit_exceeded", limit_info |-> limit_info,
     login_required |-> (limit_info.user_role = ANONYMOUS)]

ServerErrorEvent(e) == [type |-> "error", content |-> "Server error", exc |-> e]

\* `except Exception`: the error is sent to the client, the connection is
\* removed from the manager and the endpoint returns.
Crash(ws, snt, cs, rows, ai, e, info) ==
    LET d == disconnect(session_connections, cs, ws)
    IN  [snt |-> send_to_client(snt, ws, ServerErrorEvent(e)),
         cs |-> d.cs, sc |-> d.sc, rows |-> rows, ai |-> ai,
         outcome |-> "error", info |-> info]

\* The message loop after save_user_message returned: typing indicator, the
\* AI stream, its end, the assistant message and the limit update.
AfterUserSaved(ws, sid, chunks, snt1, cs1, rows1, info) ==
    LET sc == session_connections
        snt2 == broadcast_to_session(sc, snt1, sid,
                    [type |-> "typing", sender |-> "assistant", is_typing |-> TRUE])
        snt3 == BroadcastChunks(sc, snt2, sid, chunks)
        snt4 == broadcast_to_session(sc, snt3, sid,
                    [type |-> "ai_stream_end", sender |-> "assistant"])
        cs2 == add_to_history(cs1, ws, AiMessage(chunks))
        sv2 == save_assistant_message(rows1, sid, chunks)
        upd == IF Raised(sv2) THEN sv2
               ELSE get_limit_info(sv2.rows, cs1[ws].cookie_user_id,
                                   cs1[ws].auth_user_id)
    IN  IF Raised(sv2) THEN Crash(ws, snt4, cs2, rows1, ai_calls + 1, sv2.exc, info)
        ELSE IF Raised(upd)
        THEN Crash(ws, snt4, cs2, sv2.rows, ai_calls + 1, upd.exc, info)
        ELSE [snt |-> send_to_client(snt4, ws,
                          [type |-> "limit_update", limit_info |-> upd]),
              cs |-> cs2, sc |-> sc, rows |-> sv2.rows, ai |-> ai_calls + 1,
              outcome |-> "exchanged", info |-> info]

\* One pass of the message loop for the text `kind` received on ws.
HandleMessage(ws, kind, content, chunks) ==
    LET cur == connection_sessions[ws]
        sid == cur.session_id
        sc == session_connections
        chk == check_can_send(messages, cur.cookie_user_id, cur.auth_user_id)
        snt1 == broadcast_to_session(sc, NothingSent, sid, UserMessage(content))
        cs1 == add_to_history(connection_sessions, ws, UserMessage(content))
        sv == save_user_message(messages, sid, content)
    IN  IF kind = "invalid_json"
        THEN [snt |-> send_to_client(NothingSent, ws,
                          [type |-> "error", content |-> "Invalid message format"]),
              cs |-> connection_sessions, sc |-> sc, rows |-> messages,
              ai |-> ai_calls, outcome |-> "invalid_json", info |-> Raise(None)]
        ELSE IF kind = "not_object"
        THEN Crash(ws, NothingSent, connection_sessions, messages, ai_calls,
                   "AttributeError", Raise("AttributeError"))
        ELSE IF Raised(chk)
        THEN Crash(ws, NothingSent, connection_sessions, messages, ai_calls,
                   chk.exc, chk)
        ELSE IF LimitRejects(chk)
        THEN [snt |-> send_to_client(NothingSent, ws, LimitExceeded(chk)),
              cs |-> connection_sessions, sc |-> sc, rows |-> messages,
              ai |-> ai_calls, outcome |-> "limit_exceeded", info |-> chk]
        ELSE IF Raised(sv)
        THEN Crash(ws, snt1, cs1, messages, ai_calls, sv.exc, chk)
        ELSE AfterUserSaved(ws, sid, chunks, snt1, cs1, sv.rows, chk)

\* A text frame arrives on a registered connection.
ReceiveMessage(ws) ==
    /\ ws \in DOMAIN connection_sessions
    /\ \E kind \in MessageKinds, content \in Contents, chunks \in ChunkSeqs :
         LET r == HandleMessage(ws, kind, content, chunks) IN
         /\ sent' = r.snt
         /\ connection_sessions' = r.cs
         /\ session_connections' = r.sc
         /\ messages' = r.rows
         /\ ai_calls' = r.ai
         /\ last' = [op |-> "message", ws |-> ws,
                     cookie |-> connection_sessions[ws].cookie_user_id,
                     auth |-> connection_sessions[ws].auth_user_id,
                     sid |-> connection_sessions[ws].session_id,
                     outcome |-> r.outcome, info |-> r.info]
    /\ UNCHANGED <<chat_sessions, next_session_id, users, authVars>>

\* receive_text raises WebSocketDisconnect: the client went away.
ClientDisconnect(ws) ==
    /\ ws \in DOMAIN connection_sessions
    /\ LET d == disconnect(session_connections, connection_sessions, ws) IN
         /\ session_connections' = d.sc
         /\ connection_sessions' = d.cs
    /\ sent' = NothingSent
    /\ last' = [op |-> "disconnect", ws |-> ws,
                cookie |-> connection_sessions[ws].cookie_user_id,
                auth |-> connection_sessions[ws].auth_user_id,
                sid |-> connection_sessions[ws].session_id,
                outcome |-> "closed", info |-> Raise(None)]
    /\ UNCHANGED <<chat_sessions, messages, next_session_id, ai_calls, users, authVars>>

\* The endpoint up to the message loop, for a new websocket ws with the
\* cookie user id `cookie` (None: no cookie), the user id `auth` its access
\* token decodes to (None: no valid token) and the query parameter `sid`.
HandleConnect(ws, cookie, auth, sid) ==
    LET g == get_or_create_session(cookie, sid)
        li == get_limit_info(messages, cookie, auth)
        reg == register(session_connections, connection_sessions, ws, g.id,
                        cookie, auth, g.history)
        hello == send_to_client(NothingSent, ws,
                     [type |-> "system", system_type |-> "connection",
                      session_id |-> g.id, limit_info |-> li])
    IN  IF cookie = None
        THEN [snt |-> send_to_client(NothingSent, ws,
                          [type |-> "error", error_code |-> "NO_USER_ID"]),
              cs |-> connection_sessions, sc |-> session_connections,
              table |-> chat_sessions, created |-> FALSE,
              outcome |-> "no_user_id", info |-> Raise(None), bound |-> NoneInt]
        ELSE IF Raised(li)
        THEN [snt |-> send_to_client(NothingSent, ws, ServerErrorEvent(li.exc)),
              cs |-> connection_sessions, sc |-> session_connections,
              table |-> g.table, created |-> g.created,
              outcome |-> "error", info |-> li, bound |-> g.id]
        ELSE [snt |-> IF g.history # <<>>
                      THEN send_to_client(hello, ws,
                               [type |-> "history", session_id |-> g.id,
                                messages |-> g.history])
                      ELSE hello,
              cs |-> reg.cs, sc |-> reg.sc,
              table |-> g.table, created |-> g.created,
              outcome |-> "registered", info |-> li, bound |-> g.id]

Connect(ws, cookie, auth, sid) ==
    /\ ws \notin DOMAIN connection_sessions
    /\ LET r == HandleConnect(ws, cookie, auth, sid) IN
         /\ r.created => next_session_id <= MaxSessions
         /\ sent' = r.snt
         /\ connection_sessions' = r.cs
         /\ session_connections' = r.sc
         /\ chat_sessions' = r.table
         /\ next_session_id' = IF r.created THEN next_session_id + 1
                               ELSE next_session_id
         /\ last' = [op |-> "connect", ws |-> ws, cookie |-> cookie, auth |-> auth,
                     sid |-> sid, outcome |-> r.outcome, info |-> r.info,
                     bound |-> r.bound]
    /\ UNCHANGED <<messages, ai_calls, users, authVars>>

----------------------------------------------------------------------------
(* The sessions REST API (api/sessions.py) over ChatService.               *)

HistoryLimits == {1, 50}

FirstN(seq, n) == IF Len(seq) <= n THEN seq ELSE SubSeq(seq, 1, n)

\* ChatService.get_session: the session dict, or nothing (found = FALSE).
get_session(user_id, session_id) ==
    IF get_with_messages(session_id, user_id) = NoneInt
    THEN [found |-> FALSE]
    ELSE [found |-> TRUE, session |-> SessionToDict(session_id)]

\* ChatService.get_session_with_history.
get_session_with_history(user_id, session_id) ==
    IF ~belongs_to_user(session_id, user_id)
    THEN [found |-> FALSE]
    ELSE [found |-> TRUE,
          history |-> to_conversation_history(session_id, HistoryLoadLimit)]

\* ChatService.update_session_title: the table after the call.
update_session_title(user_id, session_id, title) ==
    IF ~belongs_to_user(session_id, user_id)
    THEN [found |-> FALSE, table |-> chat_sessions]
    ELSE [found |-> TRUE,
          table |-> [chat_sessions EXCEPT ![session_id].title = title]]

\* ChatService.delete_session: BaseRepository.delete removes the row and,
\* by the relationship's cascade, the session's messages.
delete_session(user_id, session_id) ==
    IF ~belongs_to_user(session_id, user_id)
    THEN [deleted |-> FALSE, table |-> chat_sessions, rows |-> messages]
    ELSE IF is_default_session(session_id)
    THEN [deleted |-> FALSE, table |-> chat_sessions, rows |-> messages]
    ELSE [deleted |-> TRUE,
          table |-> DictDel(chat_sessions, session_id),
          rows |-> SelectSeq(messages, LAMBDA m : m.session_id # session_id)]

\* `session.get("metadata", {}).get("is_default")` of the DELETE endpoint.
ApiSeesDefault(session) == DictGet(session.metadata, "is_default", FALSE) = TRUE

ApiLast(op, user_id, session_id, status, body) ==
    [op |-> op, cookie |-> user_id, sid |-> session_id, status |-> status,
     body |-> body]

\* POST /api/sessions
ApiCreateSession(user_id) ==
    /\ next_session_id <= MaxSessions
    /\ \E title \in {NewChatTitle} :
         /\ chat_sessions' = DictSet(chat_sessions, next_session_id,
                                 [user_id |-> user_id, title |-> title,
                                  meta |-> EmptyDict])
         /\ last' = ApiLast("create_session", user_id, next_session_id, 201,
                            [id |-> next_session_id, title |-> title,
                             metadata |-> EmptyDict])
    /\ next_session_id' = next_session_id + 1
    /\ sent' = NothingSent
    /\ UNCHANGED <<messages, session_connections, connection_sessions, ai_calls,
                   users, authVars>>

\* GET /api/sessions/{session_id}
ApiGetSession(user_id, session_id) ==
    /\ LET r == get_session(user_id, session_id) IN
         last' = IF r.found
                 THEN ApiLast("get_session", user_id, session_id, 200, r.session)
                 ELSE ApiLast("get_session", user_id, session_id, 404, EmptyDict)
    /\ sent' = NothingSent
    /\ UNCHANGED <<chat_sessions, messages, next_session_id, session_connections,
                   connection_sessions, ai_calls, users, authVars>>

\* PATCH /api/sessions/{session_id}
ApiUpdateSession(user_id, session_id) ==
    /\ \E title \in Titles :
         LET r == update_session_title(user_id, session_id, title) IN
         /\ chat_sessions' = r.table
         /\ last' = IF r.found
                    THEN ApiLast("update_session", user_id, session_id, 200,
                                 [id |-> session_id, title |-> title,
                                  metadata |-> chat_sessions[session_id].meta])
                    ELSE ApiLast("update_session", user_id, session_id, 404,
                                 EmptyDict)
    /\ sent' = NothingSent
    /\ UNCHANGED <<messages, next_session_id, session_connections,
                   connection_sessions, ai_calls, users, authVars>>

\* DELETE /api/sessions/{session_id}
ApiDeleteSession(user_id, session_id) ==
    /\ LET s == get_session(user_id, session_id)
           d == delete_session(user_id, session_id)
           status == IF ~s.found THEN 404
                     ELSE IF ApiSeesDefault(s.session) THEN 400
                     ELSE IF ~d.deleted THEN 400
                     ELSE 204
       IN  /\ chat_sessions' = IF status = 204 THEN d.table ELSE chat_sessions
           /\ messages' = IF status = 204 THEN d.rows ELSE messages
           /\ last' = ApiLast("delete_session", user_id, session_id, status,
                              EmptyDict)
    /\ sent' = NothingSent
    /\ UNCHANGED <<next_session_id, session_connections, connection_sessions,
                   ai_calls, users, authVars>>

\* GET /api/sessions/{session_id}/history
ApiGetSessionHistory(user_id, session_id) ==
    /\ \E limit \in HistoryLimits :
         LET r == get_session_with_history(user_id, session_id) IN
         last' = IF r.found
                 THEN ApiLast("get_session_history", user_id, session_id, 200,
                              [session_id |-> session_id,
                               messages |-> FirstN(r.history, limit)])
                 ELSE ApiLast("get_session_history", user_id, session_id, 404,
                              EmptyDict)
    /\ sent' = NothingSent
    /\ UNCHANGED <<chat_sessions, messages, next_session_id, session_connections,
                   connection_sessions, ai_calls, users, authVars>>

----------------------------------------------------------------------------
(* Refresh tokens: JWTService, UserSession and AuthService.                *)

\* settings.jwt_refresh_token_expire_days
RefreshTokenExpireDays == 7

\* JWTService._hash_token: the sha256 digest of the raw token.
hash_token(token) == <<"sha256", token>>

\* JWTService.create_refresh_token, `raw` being what secrets.token_urlsafe
\* returns: (raw_token, hashed_token, expires_at).
create_refresh_token(raw, t) ==
    [raw_token |-> raw, hashed_token |-> hash_token(raw),
     expires_at |-> t + RefreshTokenExpireDays]

\* An expiry test that allows one day of grace.
is_expired_with_grace(session, t) == t > session.expires_at + 1

\* UserSession.is_expired at time t.
is_expired(session, t) == t > session.expires_at

\* AuthService.create_auth_session: the access token (it names the user and
\* the role) and the raw refresh token, and the table with the new row.
create_auth_session(table, usrs, user_id, raw, t) ==
    LET rt == create_refresh_token(raw, t)
    IN  [ok |-> TRUE,
         access_token |-> [sub |-> user_id, role |-> usrs[user_id].role],
         refresh_token |-> rt.raw_token,
         table |-> table \cup {[user_id |-> user_id,
                                refresh_token_hash |-> rt.hashed_token,
                                expires_at |-> rt.expires_at]},
         why |-> "rotated"]

\* A rotation that leaves the old row in the table.
DeleteStoredSessionSkipped(table, session) == table

\* `await self.db.delete(session)` followed by a commit.
DeleteStoredSession(table, session) == table \ {session}

\* The None results of refresh_tokens.
RefreshRefused(table, why) == [ok |-> FALSE, table |-> table, why |-> why]

\* AuthService.refresh_tokens for the raw token `refresh_token` at time t;
\* `raw` is the token a new session would get.
refresh_tokens(table, usrs, refresh_token, raw, t) ==
    LET token_hash == hash_token(refresh_token)
        found == {s \in table : s.refresh_token_hash = token_hash}
    IN  IF found = {} THEN RefreshRefused(table, "not_found")
        ELSE LET session == CHOOSE s \in found : TRUE IN
             IF is_expired(session, t)
             THEN RefreshRefused(DeleteStoredSession(table, session), "expired")
             ELSE IF session.user_id \notin DOMAIN usrs
             THEN RefreshRefused(DeleteStoredSession(table, session), "no_user")
             ELSE IF usrs[session.user_id].is_blocked
             THEN RefreshRefused(DeleteStoredSession(table, session), "blocked")
             ELSE create_auth_session(DeleteStoredSession(table, session), usrs,
                                      session.user_id, raw, t)

AuthLast(op, token, user_id, r) ==
    [op |-> op, token |-> token, user |-> user_id, ok |-> r.ok, why |-> r.why,
     refresh_token |-> IF r.ok THEN r.refresh_token ELSE NoneInt]

\* A login endpoint (api/auth.py) after it has authenticated the user; a
\* blocked user is let in too.
Login(user_id) ==
    /\ user_id \in DOMAIN users
    /\ next_token <= MaxTokens
    /\ LET r == create_auth_session(user_sessions, users, user_id, next_token, now) IN
         /\ user_sessions' = r.table
         /\ last' = AuthLast("login", NoneInt, user_id, r)
    /\ next_token' = next_token + 1
    /\ UNCHANGED <<chatVars, users, now, exchanged, extraVars>>

\* POST /auth/refresh with the raw token of the refresh_token cookie: a
\* token some client holds, that is, one that was issued.
RefreshTokens(refresh_token) ==
    /\ refresh_token < next_token
    /\ LET r == refresh_tokens(user_sessions, users, refresh_token, next_token, now)
       IN  /\ r.ok => next_token <= MaxTokens
           /\ user_sessions' = r.table
           /\ next_token' = IF r.ok THEN next_token + 1 ELSE next_token
           /\ exchanged' = IF r.ok THEN exchanged \cup {refresh_token} ELSE exchanged
           /\ last' = AuthLast("refresh", refresh_token, None, r)
    /\ UNCHANGED <<chatVars, users, now, extraVars>>

\* PATCH /admin/users/{user_id}/block by some admin other than that user.
UpdateUserBlockStatus(user_id, is_blocked) ==
    /\ user_id \in DOMAIN users
    /\ users' = [users EXCEPT ![user_id].is_blocked = is_blocked]
    /\ last' = [op |-> "block", user |-> user_id]
    /\ UNCHANGED <<chatVars, authVars>>

\* A day passes.
Tick ==
    /\ now < MaxTime
    /\ now' = now + 1
    /\ last' = [op |-> "tick"]
    /\ UNCHANGED <<chatVars, users, user_sessions, next_token, exchanged, extraVars>>

----------------------------------------------------------------------------
(* E-mail verification tokens: VerificationService.                        *)

\* The fields that Settings (config.py) declares.
SettingsFields ==
    {"host", "port", "reload", "cors_origins", "ai_provider", "ai_model",
     "anthropic_api_key", "openai_api_key", "google_api_key", "database_path",
     "database_echo", "google_client_id", "google_client_secret",
     "github_client_id", "github_client_secret", "facebook_client_id",
     "facebook_client_secret", "jwt_secret_key", "jwt_algorithm",
     "jwt_access_token_expire_minutes", "jwt_refresh_token_expire_days",
     "initial_admin_email", "frontend_url", "backend_url"}

\* settings.<name> as VerificationService reads it: AttributeError for a
\* name Settings does not declare (extra = "ignore" drops such names from
\* the environment too). The value 1, a day, stands for a declared lifetime.
SettingsGet(name) ==
    IF name \in SettingsFields THEN [exc |-> None, value |-> 1]
    ELSE Raise("AttributeError")

\* VerificationService._hash_token: the sha256 digest of the raw token.
verification_hash_token(token) == <<"sha256", "verify", token>>

\* VerificationService._invalidate_user_tokens (committed when any token
\* was unused).
invalidate_user_tokens(table, user_id) ==
    [i \in 1 .. Len(table) |->
        IF table[i].user_id = user_id /\ ~table[i].is_used
        THEN [table[i] EXCEPT !.is_used = TRUE]
        ELSE table[i]]

\* VerificationService.create_verification_token for the user, `raw` being
\* what _generate_token returns. The invalidation is committed before the
\* expiry is computed from the settings.
create_verification_token(table, user_id, raw, t) ==
    LET invalidated == invalidate_user_tokens(table, user_id)
        hours == SettingsGet("email_verification_token_expire_hours")
    IN  IF Raised(hours)
        THEN [exc |-> hours.exc, table |-> invalidated, raw_token |-> NoneInt]
        ELSE [exc |-> None,
              table |-> Append(invalidated,
                               [user_id |-> user_id,
                                token_hash |-> verification_hash_token(raw),
                                expires_at |-> t + hours.value,
                                is_used |-> FALSE]),
              raw_token |-> raw]

\* VerificationService.verify_token at time t: the user verified, or None.
verify_token(table, usrs, raw_token, t) ==
    LET token_hash == verification_hash_token(raw_token)
        found == {i \in 1 .. Len(table) :
                     table[i].token_hash = token_hash /\ ~table[i].is_used}
        refused == [user |-> None, table |-> table, usrs |-> usrs]
    IN  IF found = {} THEN refused
        ELSE LET i == CHOOSE j \in found : TRUE IN
             IF t > table[i].expires_at THEN refused
             ELSE IF table[i].user_id \notin DOMAIN usrs THEN refused
             ELSE [user |-> table[i].user_id,
                   table |-> [table EXCEPT ![i].is_used = TRUE],
                   usrs |-> [usrs EXCEPT ![table[i].user_id].is_email_verified = TRUE]]

\* send_verification_email / create_verification_token for a user, as the
\* register and resend endpoints call it.
CreateVerificationToken(user_id) ==
    /\ user_id \in DOMAIN users
    /\ LET r == create_verification_token(verification_tokens, user_id,
                                          next_token, now) IN
         /\ ~Raised(r) => next_token <= MaxTokens
         /\ verification_tokens' = r.table
         /\ next_token' = IF Raised(r) THEN next_token ELSE next_token + 1
         /\ last' = [op |-> "create_token", user |-> user_id, exc |-> r.exc,
                     token |-> r.raw_token]
    /\ UNCHANGED <<chatVars, users, user_sessions, now, exchanged, schedulerVars, broadcast>>

\* POST /auth/verify-email with a raw token.
VerifyToken(raw_token) ==
    /\ LET r == verify_token(verification_tokens, users, raw_token, now) IN
         /\ verification_tokens' = r.table
         /\ users' = r.usrs
         /\ last' = [op |-> "verify", token |-> raw_token, user |-> r.user,
                     ok |-> (r.user # None)]
    /\ UNCHANGED <<chatVars, user_sessions, next_token, now, exchanged, schedulerVars, broadcast>>

----------------------------------------------------------------------------
(* The chat specification: websockets and the sessions API over one        *)
(* database. The database file outlives the process, so the rows it holds  *)
(* at start are an input: a default session of cookie user u1 with n       *)
(* earlier exchanges, and one row of the users table.                      *)

UserRow(role, message_limit, is_blocked, provider, is_email_verified) ==
    [role |-> role, message_limit |-> message_limit, is_blocked |-> is_blocked,
     provider |-> provider, is_email_verified |-> is_email_verified]

\* The users table: a1 a user with the custom limit 0, a2 a blocked user,
\* a3 an e-mail user who has not verified the address.
InitialUsers ==
    [u \in AuthUsers |->
        CASE u = "a1" -> UserRow(USER, 0, FALSE, "google", TRUE)
          [] u = "a2" -> UserRow(USER, NoneInt, TRUE, "google", TRUE)
          [] OTHER -> UserRow(USER, NoneInt, FALSE, "email", FALSE)]

\* The numbers of earlier user rows tried: none, and around the anonymous
\* limit.
PriorCounts == {0} \cup ((AnonymousLimit - 1) .. MaxPriorRows)

RECURSIVE PriorRows(_, _)
PriorRows(session_id, n) ==
    IF n = 0 THEN <<>>
    ELSE PriorRows(session_id, n - 1)
         \o <<[session_id |-> session_id, sender |-> "user", content |-> "old"],
              [session_id |-> session_id, sender |-> "assistant",
               content |-> <<"a">>]>>

\* The stored refresh-token session (raw token 0) of a user whose row is no
\* longer in the users table.
InitialUserSessions ==
    {[user_id |-> "gone", refresh_token_hash |-> hash_token(0),
      expires_at |-> RefreshTokenExpireDays]}

\* The stored verification tokens: of the unverified user a3 an invalidated
\* token (raw token 1) and a later unused one (2), and an unused token (3)
\* of user a1.
InitialVerificationTokens ==
    <<[user_id |-> "a3", token_hash |-> verification_hash_token(1),
       expires_at |-> 1, is_used |-> TRUE],
      [user_id |-> "a3", token_hash |-> verification_hash_token(2),
       expires_at |-> 2, is_used |-> FALSE],
      [user_id |-> "a1", token_hash |-> verification_hash_token(3),
       expires_at |-> 2, is_used |-> FALSE]>>

NoLast == [op |-> "none"]

Init ==
    /\ \E n \in PriorCounts :
         /\ messages = PriorRows(1, n)
         /\ chat_sessions = IF n = 0 THEN EmptyDict
                            ELSE DictSet(EmptyDict, 1,
                                         [user_id |-> "u1",
                                          title |-> DEFAULT_SESSION_TITLE,
                                          meta |-> DEFAULT_SESSION_META])
         /\ next_session_id = IF n = 0 THEN 1 ELSE 2
    /\ users = InitialUsers
    /\ user_sessions = InitialUserSessions
    /\ next_token = 1
    /\ exchanged = {}
    /\ verification_tokens = InitialVerificationTokens
    /\ SchedulerIdle
    /\ now = 0
    /\ session_connections = EmptyDict
    /\ connection_sessions = EmptyDict
    /\ sent = NothingSent
    /\ ai_calls = 0
    /\ last = NoLast

SessionIds == 1 .. MaxSessions

\* What a connecting client supplies: the cookie user id, the user its access
\* token decodes to, and the session_id query parameter. Without the cookie
\* the endpoint returns before it reads the other two.
ConnectInputs ==
    {<<None, None, NoneInt>>}
    \cup (CookieUsers \X (AuthUsers \cup {None}) \X (SessionIds \cup {NoneInt}))

\* The chat websockets: connects, messages and disconnects. The sessions
\* are the default sessions that connects create.
Next ==
    \/ \E ws \in Connections, i \in ConnectInputs : Connect(ws, i[1], i[2], i[3])
    \/ \E ws \in Connections : ReceiveMessage(ws)
    \/ \E ws \in Connections : ClientDisconnect(ws)

Spec == Init /\ [][Next]_vars

\* The sessions API, with one anonymous websocket (its connects create the
\* default sessions).
NextApi ==
    \/ \E u \in CookieUsers, sid \in SessionIds \cup {NoneInt} :
          Connect(1, u, None, sid)
    \/ ReceiveMessage(1)
    \/ ClientDisconnect(1)
    \/ \E u \in CookieUsers : ApiCreateSession(u)
    \/ \E u \in CookieUsers, sid \in SessionIds : ApiGetSession(u, sid)
    \/ \E u \in CookieUsers, sid \in SessionIds : ApiUpdateSession(u, sid)
    \/ \E u \in CookieUsers, sid \in SessionIds : ApiDeleteSession(u, sid)
    \/ \E u \in CookieUsers, sid \in SessionIds : ApiGetSessionHistory(u, sid)

SpecApi == Init /\ [][NextApi]_vars

\* The auth service alone: logins, refreshes with any token issued so far,
\* an admin blocking and unblocking, and the passing of days.
NextAuth ==
    \/ \E u \in {"a1", "a2"} : Login(u)
    \/ \E t \in 0 .. MaxTokens : RefreshTokens(t)
    \/ \E b \in BOOLEAN : UpdateUserBlockStatus("a1", b)
    \/ Tick

\* The chat tables play no part here: start from the empty database.
InitAuth == Init /\ messages = <<>> /\ next_session_id = 1

SpecAuth == InitAuth /\ [][NextAuth]_vars

\* The verification service alone: token requests, verifications with any
\* raw token, and the passing of days.
NextVerify ==
    \/ \E u \in {"a1", "a3"} : CreateVerificationToken(u)
    \/ \E t \in 0 .. (MaxTokens + 1) : VerifyToken(t)
    \/ Tick

SpecVerify == InitAuth /\ [][NextVerify]_vars

----------------------------------------------------------------------------
(* Claims about the message limits.                                        *)

\* The handler that ran last computed limit info without raising.
LimitInfoReturned(l) == "can_send" \in DOMAIN l.info

\* C1: when check_can_send returns can_send = false for the sender of a
\* message, the handler sends exactly one 'limit_exceeded' event to that
\* connection and nothing to any other; it broadcasts nothing, leaves every
\* in-memory history and the messages table as they were, does not call the
\* AI service, and the connection stays registered.
C1_LimitExceededOnly ==
    [][ (last'.op = "message" /\ LimitInfoReturned(last') /\ ~last'.info.can_send)
        => /\ Len(sent'[last'.ws]) = 1
           /\ sent'[last'.ws][1].type = "limit_exceeded"
           /\ \A c \in Connections \ {last'.ws} : sent'[c] = <<>>
           /\ messages' = messages
           /\ connection_sessions' = connection_sessions
           /\ session_connections' = session_connections
           /\ ai_calls' = ai_calls
           /\ last'.ws \in DOMAIN connection_sessions' ]_vars

\* C1 witness: a message was refused for its limit while a second connection
\* was registered to the same session.
C1_Witness ==
    /\ last.op = "message"
    /\ last.outcome = "limit_exceeded"
    /\ last.sid \in DOMAIN session_connections
    /\ Len(session_connections[last.sid]) >= 2

\* The number of stored messages with sender 'user' in the sessions that
\* the cookie user u owns.
PersistedBy(table, rows, u) ==
    Cardinality({i \in 1 .. Len(rows) :
                    /\ rows[i].sender = "user"
                    /\ rows[i].session_id \in DOMAIN table
                    /\ table[rows[i].session_id].user_id = u})

\* The handler that ran last let the message through: it broadcast it.
LetThrough(l, snt) ==
    \E i \in 1 .. Len(snt[l.ws]) : snt[l.ws][i].type = "message"

\* C2: for a cookie user without an authenticated account, handlers running
\* one at a time, the stored 'user' messages of that user's sessions never
\* come to exceed 5: no step takes their number above 5, a message of the
\* user is let through only while fewer than 5 are stored, and a handler
\* stores at most one.
C2_AnonymousBound ==
    [][ \A u \in CookieUsers :
           LET before == PersistedBy(chat_sessions, messages, u)
               after == PersistedBy(chat_sessions', messages', u)
           IN  /\ after <= before \/ after <= 5
               /\ after <= before + 1
               /\ (/\ last'.op = "message"
                   /\ last'.cookie = u
                   /\ last'.auth = None
                   /\ (LetThrough(last', sent') \/ after > before))
                  => before < 5 ]_vars

\* C2 witness: an anonymous user with 5 stored messages in one session sent
\* a sixth in another session of theirs, which was refused and not stored.
C2_Witness ==
    /\ last.op = "message"
    /\ last.auth = None
    /\ last.outcome = "limit_exceeded"
    /\ PersistedBy(chat_sessions, messages, last.cookie) = 5
    /\ \A i \in 1 .. Len(messages) : messages[i].session_id # last.sid

\* An anonymous user with 4 stored messages had the fifth let through.
C2_ReachedBelowLimit ==
    /\ last.op = "message"
    /\ last.auth = None
    /\ LetThrough(last, sent)
    /\ PersistedBy(chat_sessions, messages, last.cookie) = 4

\* The authenticated user a handler ran for, when the users table has a row.
LastAuthUser == users[last.auth]

LastRanFor(P(_)) ==
    /\ last.op \in {"connect", "message"}
    /\ last.cookie # None
    /\ last.auth \in DOMAIN users
    /\ P(LastAuthUser)

\* C3 (as claimed): a user with role 'user' who has used up the limit (here
\* the custom limit 0, used up from the start) is told so: whatever the
\* endpoint does for a connection authenticated as that user ends in the
\* registration of the connection or in 'limit_exceeded', and no message of
\* theirs is exchanged.
C3_AuthLimitEnforced ==
    LastRanFor(LAMBDA u : u.role = USER /\ u.message_limit = 0 /\ ~u.is_blocked
                          /\ (u.provider = "email" => u.is_email_verified))
    => last.outcome \in {"registered", "limit_exceeded"}

\* C4 (as claimed): for a blocked user, or an e-mail user whose address is
\* not verified, get_limit_info returns limit 0 and can_send = false, with
\* requires_verification true exactly for the unverified user who is not
\* blocked.
C4_BlockedOrUnverifiedCannotSend ==
    LastRanFor(LAMBDA u : u.is_blocked
                          \/ (u.provider = "email" /\ ~u.is_email_verified))
    => /\ LimitInfoReturned(last)
       /\ last.info.limit = 0
       /\ ~last.info.can_send
       /\ last.info.requires_verification = ~LastAuthUser.is_blocked

----------------------------------------------------------------------------
(* Claims about the binding of connections and about broadcasts.           *)

\* The rows of a session as the events a client is shown, oldest first.
Shown(session_id) ==
    LET rows == SelectSeq(messages, LAMBDA m : m.session_id = session_id)
    IN  [i \in 1 .. Len(rows) |->
            [type |-> "message", sender |-> rows[i].sender,
             content |-> rows[i].content]]

\* The connect just handled asked for a session the cookie user owns.
AskedForOwn(l, table) ==
    /\ l.sid # NoneInt
    /\ l.sid \in DOMAIN table
    /\ table[l.sid].user_id = l.cookie

\* The session a connection is registered to, while its
\* row exists, belongs to the connection's cookie user.
RegisteredToOwner ==
    \A ws \in DOMAIN connection_sessions :
        LET b == connection_sessions[ws].session_id
        IN  b \in DOMAIN chat_sessions
            => chat_sessions[b].user_id = connection_sessions[ws].cookie_user_id

\* C9: a connection is registered to a session owned by its cookie user.
\* A connect that names a session of that user is bound to it; a connect
\* with no session_id, an unknown one or another user's is bound to the
\* user's default session, which is created when the user has none and
\* reused when there is one; afterwards, while the session's row exists, it
\* still belongs to that user.  The confirmation carries the id of the bound
\* session and the history sent is that session's.
C9_BoundToOwnSession ==
    [][ /\ RegisteredToOwner'
        /\ (last'.op = "connect" /\ last'.outcome = "registered")
           => LET ws == last'.ws
                  b == connection_sessions'[ws].session_id
                  had == {s \in DOMAIN chat_sessions :
                             /\ chat_sessions[s].user_id = last'.cookie
                             /\ chat_sessions[s].meta = [is_default |-> TRUE]}
              IN  /\ b \in DOMAIN chat_sessions'
                  /\ chat_sessions'[b].user_id = last'.cookie
                  /\ connection_sessions'[ws].cookie_user_id = last'.cookie
                  /\ ws \in SeqToSet(session_connections'[b])
                  /\ IF AskedForOwn(last', chat_sessions)
                     THEN b = last'.sid /\ chat_sessions' = chat_sessions
                     ELSE /\ chat_sessions'[b].meta = [is_default |-> TRUE]
                          /\ IF had # {}
                             THEN b \in had /\ chat_sessions' = chat_sessions
                             ELSE /\ b \notin DOMAIN chat_sessions
                                  /\ DOMAIN chat_sessions' = DOMAIN chat_sessions \cup {b}
                  /\ sent'[ws][1].system_type = "connection"
                  /\ sent'[ws][1].session_id = b
                  /\ connection_sessions'[ws].history = Shown(b)
                  /\ IF Shown(b) = <<>>
                     THEN Len(sent'[ws]) = 1
                     ELSE /\ Len(sent'[ws]) = 2
                          /\ sent'[ws][2].type = "history"
                          /\ sent'[ws][2].session_id = b
                          /\ sent'[ws][2].messages = Shown(b) ]_vars

\* C9 witness: a connect that named another user's session was bound to
\* the caller's own default session and was sent that session's history.
C9_Witness ==
    /\ last.op = "connect"
    /\ last.outcome = "registered"
    /\ last.sid \in DOMAIN chat_sessions
    /\ chat_sessions[last.sid].user_id # last.cookie
    /\ last.bound # last.sid
    /\ Len(sent[last.ws]) = 2
    /\ sent[last.ws][2].messages # <<>>

\* C10: a broadcast to a session reaches only connections registered under
\* that session: whatever a message handler sends goes to connections that
\* were registered to the sender's session when the message arrived.
C10_BroadcastWithinSession ==
    [][ last'.op = "message"
        => \A c \in Connections :
              sent'[c] # <<>>
              => /\ c \in DOMAIN connection_sessions
                 /\ connection_sessions[c].session_id = last'.sid
                 /\ c \in SeqToSet(session_connections[last'.sid]) ]_vars

\* C10 witness: a user message was broadcast while a connection of another
\* session was registered.
C10_Witness ==
    /\ last.op = "message"
    /\ \E i \in 1 .. Len(sent[last.ws]) : sent[last.ws][i].type = "message"
    /\ \E c \in DOMAIN connection_sessions :
          /\ c # last.ws
          /\ connection_sessions[c].session_id # last.sid
          /\ sent[c] = <<>>

----------------------------------------------------------------------------
(* Claims about the sessions API.                                          *)

ByIdOps == {"get_session", "update_session", "delete_session",
            "get_session_history"}

RowsOf(rows, session_id) == SelectSeq(rows, LAMBDA m : m.session_id = session_id)

\* The session a request names exists and belongs to the caller.
CallerOwns(l, table) ==
    l.sid \in DOMAIN table /\ table[l.sid].user_id = l.cookie

\* C7: a request of the sessions API that names a session succeeds only for
\* the session's owner.  For any other caller, and for an unknown id, the
\* answer is 404 and the sessions and messages tables stay as they were;
\* what the owner reads is the session asked for and its rows.
C7_OwnerOnly ==
    [][ last'.op \in ByIdOps
        => IF CallerOwns(last', chat_sessions)
           THEN /\ last'.status # 404
                /\ last'.op = "get_session" => last'.body.id = last'.sid
                /\ last'.op = "get_session_history"
                   => \A i \in 1 .. Len(last'.body.messages) :
                         /\ i <= Len(RowsOf(messages, last'.sid))
                         /\ last'.body.messages[i].content
                              = RowsOf(messages, last'.sid)[i].content
           ELSE /\ last'.status = 404
                /\ chat_sessions' = chat_sessions
                /\ messages' = messages ]_vars

\* C7 witness: a caller asked to delete another user's session, which holds
\* messages, and was answered 404.
C7_Witness ==
    /\ last.op = "delete_session"
    /\ last.status = 404
    /\ last.sid \in DOMAIN chat_sessions
    /\ chat_sessions[last.sid].user_id # last.cookie
    /\ RowsOf(messages, last.sid) # <<>>

IsDefault(table, s) == table[s].meta = [is_default |-> TRUE]

\* C8: a default session is never deleted through the sessions API.  Its
\* owner's DELETE is answered 400, ChatService.delete_session returns False
\* for it, and after any step the session is still there, still the default
\* session of the same user, with the messages it had.
C8_DefaultSessionKept ==
    [][ /\ \A s \in DOMAIN chat_sessions :
              IsDefault(chat_sessions, s)
              => /\ s \in DOMAIN chat_sessions'
                 /\ IsDefault(chat_sessions', s)
                 /\ chat_sessions'[s].user_id = chat_sessions[s].user_id
                 /\ RowsOf(messages', s) = RowsOf(messages, s)
                 /\ \A u \in CookieUsers : ~delete_session(u, s).deleted
        /\ (/\ last'.op = "delete_session"
            /\ CallerOwns(last', chat_sessions)
            /\ IsDefault(chat_sessions, last'.sid))
           => last'.status = 400 ]_vars

\* C8 witness: the owner asked to delete a default session that holds
\* messages and was answered 400.
C8_Witness ==
    /\ last.op = "delete_session"
    /\ last.status = 400
    /\ last.sid \in DOMAIN chat_sessions
    /\ chat_sessions[last.sid].user_id = last.cookie
    /\ IsDefault(chat_sessions, last.sid)
    /\ RowsOf(messages, last.sid) # <<>>

----------------------------------------------------------------------------
(* Claims about refresh tokens.                                            *)

\* The stored sessions of a raw token.
StoredFor(table, token) ==
    {s \in table : s.refresh_token_hash = <<"sha256", token>>}

\* C5: refresh tokens rotate.  When refresh_tokens succeeds for the token T,
\* the stored session of T is gone and exactly one stored session is new: it
\* is the session of the new token T', which differs from T and was never
\* issued before, and it belongs to the user T belonged to; T' can be
\* exchanged in its turn.  A token that was exchanged has no stored session
\* from then on, and a refresh with it returns None.
C5_RefreshRotates ==
    [][ /\ \A t \in exchanged' : StoredFor(user_sessions', t) = {}
        /\ (last'.op = "refresh" /\ last'.token \in exchanged) => ~last'.ok
        /\ (last'.op = "refresh" /\ last'.ok)
           => LET T == last'.token
                  Tn == last'.refresh_token
                  old == StoredFor(user_sessions, T)
                  new == user_sessions' \ user_sessions
              IN  /\ Cardinality(old) = 1
                  /\ user_sessions \ user_sessions' = old
                  /\ Tn # T
                  /\ Tn \notin exchanged
                  /\ StoredFor(user_sessions, Tn) = {}
                  /\ new = StoredFor(user_sessions', Tn)
                  /\ Cardinality(new) = 1
                  /\ \A n \in new : \A o \in old : n.user_id = o.user_id
                  /\ ~refresh_tokens(user_sessions', users', T, next_token',
                                     now').ok
                  /\ refresh_tokens(user_sessions', users', Tn, next_token',
                                    now').ok ]_vars

\* C5 witness: a token that had been exchanged was presented again and
\* refused, while the session of its successor is stored.
C5_Witness ==
    /\ last.op = "refresh"
    /\ ~last.ok
    /\ last.token \in exchanged
    /\ \E t \in 1 .. MaxTokens : t # last.token /\ StoredFor(user_sessions, t) # {}

\* C6: refresh_tokens issues no tokens and deletes the stored session of the
\* token when that session is expired, when its user is not in the users
\* table, or when its user is blocked; for a token without a stored session
\* it returns None and changes nothing.
C6_RefreshRefusals ==
    [][ last'.op = "refresh"
        => LET old == StoredFor(user_sessions, last'.token)
               bad == {s \in old : \/ now > s.expires_at
                                   \/ s.user_id \notin DOMAIN users
                                   \/ users[s.user_id].is_blocked}
           IN  /\ old = {} => /\ ~last'.ok
                              /\ user_sessions' = user_sessions
                              /\ next_token' = next_token
               /\ bad # {} => /\ ~last'.ok
                              /\ user_sessions' = user_sessions \ old
                              /\ next_token' = next_token ]_vars

\* C6 witness: a refresh with the token of an expired session was refused
\* and the session deleted.
C6_Witness ==
    /\ last.op = "refresh"
    /\ ~last.ok
    /\ last.why = "expired"
    /\ last.token >= 1
    /\ StoredFor(user_sessions, last.token) = {}

\* The other refusals of C6 happen too.
C6_ReachedBlocked == last.op = "refresh" /\ last.why = "blocked"
C6_ReachedNoUser == last.op = "refresh" /\ last.why = "no_user"
C6_ReachedNotFound == last.op = "refresh" /\ last.why = "not_found"

----------------------------------------------------------------------------
(* Claims about the message exchange.                                      *)

\* C11 (as claimed): a message that passes the limit check is exchanged: its
\* row with sender 'user' is stored in the connection's session, the AI
\* service is called, the reply is stored after it with sender 'assistant'
\* in the same session, and the connection stays registered for the next
\* message.
C11_ExchangePersisted ==
    (last.op = "message" /\ LimitInfoReturned(last) /\ last.info.can_send)
    => /\ last.outcome = "exchanged"
       /\ ai_calls >= 1
       /\ last.ws \in DOMAIN connection_sessions
       /\ Len(messages) >= 2
       /\ messages[Len(messages) - 1].sender = "user"
       /\ messages[Len(messages) - 1].session_id = last.sid
       /\ messages[Len(messages)].sender = "assistant"
       /\ messages[Len(messages)].session_id = last.sid

\* The events of one exchange as a connection of the session receives
\* them: 'message', 'typing', the 'ai_stream' chunks as generated, and one
\* 'ai_stream_end'.
IsExchangeStream(events) ==
    LET n == Len(events) IN
    /\ n >= 3
    /\ events[1].type = "message"
    /\ events[1].sender = "user"
    /\ events[2].type = "typing"
    /\ \A i \in 3 .. (n - 1) : events[i].type = "ai_stream"
    /\ [i \in 1 .. (n - 3) |-> events[i + 2].content] \in ChunkSeqs
    /\ events[n].type = "ai_stream_end"

\* C19 (as claimed): for a message that passes the limit check the sending
\* connection receives, in this order, the user 'message', 'typing', the
\* 'ai_stream' chunks in generation order, one 'ai_stream_end' and last a
\* 'limit_update'; the other connections of the session receive the same
\* without the 'limit_update'.
C19_ExchangeEventOrder ==
    (last.op = "message" /\ LimitInfoReturned(last) /\ last.info.can_send)
    => /\ Len(sent[last.ws]) >= 4
       /\ IsExchangeStream(SubSeq(sent[last.ws], 1, Len(sent[last.ws]) - 1))
       /\ sent[last.ws][Len(sent[last.ws])].type = "limit_update"
       /\ \A ws \in SeqToSet(DictGet(session_connections, last.sid, <<>>)) \ {last.ws} :
             IsExchangeStream(sent[ws])

\* The in-memory history h ends with an exchange: a user message of the
\* contents sent and, after it, the assistant's reply.
EndsWithExchange(h) ==
    /\ Len(h) >= 2
    /\ h[Len(h) - 1].sender = "user"
    /\ h[Len(h) - 1].content \in Contents
    /\ h[Len(h)].sender = "assistant"
    /\ h[Len(h)].content \in ChunkSeqs

----------------------------------------------------------------------------
(* Claims about e-mail verification.                                       *)

\* The rows of a user's verification tokens, by position (creation order).
TokenRowsOf(table, u) == {i \in 1 .. Len(table) : table[i].user_id = u}

\* The row that stores a raw token, if any.
RowsStoring(table, token) ==
    {i \in 1 .. Len(table) : table[i].token_hash = <<"sha256", "verify", token>>}

\* C12 (as claimed): only the most recent verification token of a user is
\* valid.  At most one token of a user is unused and it is the one created
\* last for that user; a create_verification_token call returns a raw token
\* whose row is then the user's last and unused one; and a verification with
\* a raw token that is not the user's last one has just been refused.
C12_OnlyLatestTokenValid ==
    /\ \A u \in DOMAIN users :
          \A i \in TokenRowsOf(verification_tokens, u) :
             ~verification_tokens[i].is_used
             => \A j \in TokenRowsOf(verification_tokens, u) : j <= i
    /\ last.op = "create_token"
       => /\ last.exc = None
          /\ \E i \in RowsStoring(verification_tokens, last.token) :
                /\ verification_tokens[i].user_id = last.user
                /\ ~verification_tokens[i].is_used
                /\ \A j \in TokenRowsOf(verification_tokens, last.user) : j <= i
    /\ last.op = "verify"
       => \A i \in RowsStoring(verification_tokens, last.token) :
             (\E j \in TokenRowsOf(verification_tokens,
                                   verification_tokens[i].user_id) : j > i)
             => ~last.ok

----------------------------------------------------------------------------
(* The admin API (api/admin.py) behind the require_admin dependency.       *)

\* UpdateRoleRequest.role: the roles the request schema accepts.
RoleNames == {USER, UNLIMITED, ADMIN}

\* The admins of the users table at start.
AdminUsers == {"adm1"}

\* The users an admin request names: the admin, a plain user, and an id
\* the users table does not hold.
AdminTargets == AdminUsers \cup {"a1", "gone"}

\* The access_token cookies tried: none, a string that is no JWT of this
\* server, and tokens the server issued (signed, type 'access') for a
\* subject, expiring early or late.
NoAccessToken == [sub |-> None, type |-> "none", exp |-> 0]
GarbageToken == [sub |-> None, type |-> "garbage", exp |-> 0]
AccessTokens ==
    {NoAccessToken, GarbageToken}
    \cup [sub : AdminTargets, type : {"access"}, exp : {1, MaxTime}]

\* jwt.decode at time t raises JWTError for a string that is no JWT signed
\* by this server and for a token past its exp.
JWTError(token, t) == token.type = "garbage" \/ token.exp < t

\* JWTService.verify_access_token at time t: the payload (here the token
\* itself), or the payload None (sub None) for a token that does not decode
\* or is not of type 'access'.
verify_access_token(token, t) ==
    IF JWTError(token, t) THEN NoAccessToken
    ELSE IF token.type /= "access" THEN NoAccessToken
    ELSE token

\* JWTService.get_user_id_from_token.
get_user_id_from_token(token, t) == verify_access_token(token, t).sub

\* An HTTPException of the given status, and a dependency that passed.
HttpError(code) == [status |-> code, user |-> None]

\* get_current_user_required: the id of the user row, or 401/403.
get_current_user_required(usrs, access_token, t) ==
    IF access_token = NoAccessToken THEN HttpError(401)
    ELSE LET user_id == get_user_id_from_token(access_token, t) IN
         IF user_id = None THEN HttpError(401)
         ELSE IF user_id \notin DOMAIN usrs THEN HttpError(401)
         ELSE IF usrs[user_id].is_blocked THEN HttpError(403)
         ELSE [status |-> 200, user |-> user_id]

\* User.is_admin.
is_admin(user) == user.role = ADMIN

\* A require_admin that lets every authenticated user pass.
require_admin_any_role(usrs, access_token, t) ==
    get_current_user_required(usrs, access_token, t)

\* require_admin.
require_admin(usrs, access_token, t) ==
    LET current_user == get_current_user_required(usrs, access_token, t) IN
    IF current_user.status /= 200 THEN current_user
    ELSE IF ~is_admin(usrs[current_user.user]) THEN HttpError(403)
    ELSE current_user

\* get_user_message_count: the query names Message.user_id, a column the
\* Message model does not declare.
get_user_message_count(user_id) ==
    IF "user_id" \in MessageColumns THEN [exc |-> None]
    ELSE Raise("AttributeError")

\* The response of an endpoint that has committed its change and then
\* builds the user detail: 200, or 500 when the count raises.
DetailStatus(user_id) ==
    IF Raised(get_user_message_count(user_id)) THEN 500 ELSE 200

\* A self-demotion guard that never fires.
CannotChangeOwnRoleNever(user_id, admin_id, role) == FALSE

\* update_user_role: "Prevent admin from demoting themselves".
CannotChangeOwnRole(user_id, admin_id, role) ==
    user_id = admin_id /\ role /= ADMIN

\* update_user_block_status: "Prevent admin from blocking themselves".
CannotBlockYourself(user_id, admin_id) == user_id = admin_id

\* update_user_role after the dependency passed: (status, users table).
update_user_role(usrs, admin_id, user_id, role) ==
    IF user_id \notin DOMAIN usrs THEN [status |-> 404, usrs |-> usrs]
    ELSE IF CannotChangeOwnRole(user_id, admin_id, role)
    THEN [status |-> 400, usrs |-> usrs]
    ELSE [status |-> DetailStatus(user_id),
          usrs |-> [usrs EXCEPT ![user_id].role = role]]

\* update_user_block_status after the dependency passed.
update_user_block_status(usrs, admin_id, user_id, is_blocked) ==
    IF user_id \notin DOMAIN usrs THEN [status |-> 404, usrs |-> usrs]
    ELSE IF CannotBlockYourself(user_id, admin_id)
    THEN [status |-> 400, usrs |-> usrs]
    ELSE [status |-> DetailStatus(user_id),
          usrs |-> [usrs EXCEPT ![user_id].is_blocked = is_blocked]]

\* get_user after the dependency passed.
get_user(usrs, admin_id, user_id) ==
    IF user_id \notin DOMAIN usrs THEN [status |-> 404, usrs |-> usrs]
    ELSE [status |-> DetailStatus(user_id), usrs |-> usrs]

AdminOps == {"role", "block", "get_user"}

\* What a request to an admin endpoint did: the dependency's verdict, and
\* the handler's when the dependency passed.
AdminLast(op, access_token, dep, user_id, value, r) ==
    [op |-> op, token |-> access_token, admin |-> dep.user,
     target |-> user_id, value |-> value,
     status |-> IF dep.status /= 200 THEN dep.status ELSE r.status,
     ran |-> (dep.status = 200)]

\* A request to an admin endpoint: the handler runs only when require_admin
\* has passed. The users table and the response afterwards.
AdminRequest(op, access_token, user_id, value, Handler(_, _)) ==
    LET dep == require_admin(users, access_token, now)
        r == IF dep.status = 200 THEN Handler(users, dep.user)
             ELSE [status |-> dep.status, usrs |-> users]
    IN [usrs |-> r.usrs,
        response |-> AdminLast(op, access_token, dep, user_id, value, r)]

\* PATCH /admin/users/{user_id}/role.
AdminUpdateUserRole(access_token, user_id, role) ==
    /\ LET r == AdminRequest("role", access_token, user_id, role,
                   LAMBDA usrs, admin : update_user_role(usrs, admin, user_id, role))
       IN /\ users' = r.usrs
          /\ last' = r.response
    /\ UNCHANGED <<chatVars, authVars>>

\* PATCH /admin/users/{user_id}/block.
AdminUpdateUserBlock(access_token, user_id, is_blocked) ==
    /\ LET r == AdminRequest("block", access_token, user_id, is_blocked,
                   LAMBDA usrs, admin :
                      update_user_block_status(usrs, admin, user_id, is_blocked))
       IN /\ users' = r.usrs
          /\ last' = r.response
    /\ UNCHANGED <<chatVars, authVars>>

\* GET /admin/users/{user_id}.
AdminGetUser(access_token, user_id) ==
    /\ LET r == AdminRequest("get_user", access_token, user_id, None,
                   LAMBDA usrs, admin : get_user(usrs, admin, user_id))
       IN /\ users' = r.usrs
          /\ last' = r.response
    /\ UNCHANGED <<chatVars, authVars>>

\* The users table of the admin specification: an admin and the user a1.
AdminInitialUsers ==
    [u \in AdminUsers \cup {"a1"} |->
        IF u \in AdminUsers THEN UserRow(ADMIN, NoneInt, FALSE, "google", TRUE)
        ELSE UserRow(USER, NoneInt, FALSE, "google", TRUE)]

\* The requests are made early, when every token tried is still valid, or
\* late, when the short-lived ones have expired.
InitAdmin ==
    /\ messages = <<>>
    /\ chat_sessions = EmptyDict
    /\ next_session_id = 1
    /\ users = AdminInitialUsers
    /\ user_sessions = InitialUserSessions
    /\ next_token = 1
    /\ exchanged = {}
    /\ verification_tokens = <<>>
    /\ SchedulerIdle
    /\ now \in {0, MaxTime}
    /\ session_connections = EmptyDict
    /\ connection_sessions = EmptyDict
    /\ sent = NothingSent
    /\ ai_calls = 0
    /\ last = NoLast

NextAdmin ==
    \/ \E t \in AccessTokens, u \in AdminTargets, r \in RoleNames :
          AdminUpdateUserRole(t, u, r)
    \/ \E t \in AccessTokens, u \in AdminTargets, b \in BOOLEAN :
          AdminUpdateUserBlock(t, u, b)
    \/ \E t \in AccessTokens, u \in AdminTargets : AdminGetUser(t, u)

SpecAdmin == InitAdmin /\ [][NextAdmin]_vars

----------------------------------------------------------------------------
(* Claims about the admin API.                                             *)

\* The request just handled passed require_admin.
AdminRan == last.op \in AdminOps /\ last.ran

\* C13: an admin cannot change their own role to a non-admin role, nor
\* their own blocked status, through the admin API: such a request is
\* answered 400 and the users table stays as it was.
C13_NoSelfDemotionOrBlock ==
    [][(AdminRan' /\ last'.target = last'.admin
        /\ \/ last'.op = "role" /\ last'.value /= ADMIN
           \/ last'.op = "block")
       => /\ last'.status = 400
          /\ users' = users]_vars

\* An admin who asked for a non-admin role for themselves was answered 400.
C13_Witness ==
    /\ AdminRan
    /\ last.op = "role"
    /\ last.target = last.admin
    /\ last.value /= ADMIN
    /\ last.status = 400

\* The token of the request is one the server accepts at this time, and
\* names a user of the table.
TokenNamesUser(token, t) ==
    /\ token.type = "access"
    /\ token.exp >= t
    /\ token.sub \in DOMAIN users

\* C14: an admin endpoint acts only for a request whose token is valid and
\* whose user is, at the time of the request, in the users table, not
\* blocked and of role 'admin'; a request with a valid token of a user who
\* is blocked or no admin by then is answered 403.
C14_AdminOnly ==
    [][last'.op \in AdminOps
       => /\ (last'.ran \/ users' /= users)
             => /\ TokenNamesUser(last'.token, now)
                /\ ~users[last'.token.sub].is_blocked
                /\ users[last'.token.sub].role = ADMIN
          /\ (/\ TokenNamesUser(last'.token, now)
              /\ \/ users[last'.token.sub].is_blocked
                 \/ users[last'.token.sub].role /= ADMIN)
             => /\ last'.status = 403
                /\ ~last'.ran
                /\ users' = users]_vars

\* A user who was an admin at the start, demoted since, was answered 403
\* on a token that is still valid.
C14_Witness ==
    /\ last.op \in AdminOps
    /\ last.token.type = "access"
    /\ last.token.sub \in AdminUsers
    /\ last.token.exp >= now
    /\ ~users[last.token.sub].is_blocked
    /\ users[last.token.sub].role /= ADMIN
    /\ last.status = 403

----------------------------------------------------------------------------
(* Statistics: StatsRepository over the messages and chat_sessions tables. *)

\* Python's sum(1 for m in rows if P(m)) over a set of row numbers.
CountWhere(rows, P(_)) == Cardinality({i \in 1 .. Len(rows) : P(rows[i])})

\* The entry of a set of result rows that ORDER BY message_count DESC puts
\* first.
FirstByCount(entries) ==
    CHOOSE e \in entries : \A f \in entries : f.message_count <= e.message_count

\* ORDER BY func.count(Message.id).desc() LIMIT n over the grouped rows:
\* combined.sort(key=message_count, reverse=True)[:n] works alike.
RECURSIVE OrderByCountDescLimit(_, _)
OrderByCountDescLimit(entries, n) ==
    IF n = 0 \/ entries = {} THEN <<>>
    ELSE LET e == FirstByCount(entries) IN
         <<e>> \o OrderByCountDescLimit(entries \ {e}, n - 1)

\* registered_query: users joined to their messages on Message.user_id,
\* sender 'user', grouped by user.
registered_query(rows, usrs) ==
    {e \in [identifier : DOMAIN usrs, message_count : 1 .. Len(rows),
            user_type : {"registered"}] :
        e.message_count = CountWhere(rows, LAMBDA m : m.user_id = e.identifier
                                                      /\ m.sender = "user")}

\* anonymous_query: sessions joined to their messages with sender 'user' and
\* a null Message.user_id, grouped by the session's owner.
anonymous_query(rows, sessions) ==
    {e \in [identifier : {sessions[s].user_id : s \in DOMAIN sessions},
            message_count : 1 .. Len(rows), user_type : {"anonymous"}] :
        e.message_count =
           CountWhere(rows, LAMBDA m : /\ m.session_id \in DOMAIN sessions
                                       /\ sessions[m.session_id].user_id = e.identifier
                                       /\ m.sender = "user"
                                       /\ m.user_id = None)}

\* StatsRepository.get_top_active_users(limit): both queries name
\* Message.user_id, an attribute the Message model does not define, so that
\* building the first of them raises AttributeError.
get_top_active_users(rows, sessions, usrs, limit) ==
    IF "user_id" \notin MessageColumns THEN Raise("AttributeError")
    ELSE LET registered_users ==
                OrderByCountDescLimit(registered_query(rows, usrs), limit)
             anonymous_sessions ==
                OrderByCountDescLimit(anonymous_query(rows, sessions), limit)
             combined == SeqToSet(registered_users) \cup SeqToSet(anonymous_sessions)
         IN [exc |-> None, value |-> OrderByCountDescLimit(combined, limit)]

\* A by_sender query that reports the table's row count for every sender.
by_sender_query_ungrouped(rows) ==
    [sender \in {rows[i].sender : i \in 1 .. Len(rows)} |-> Len(rows)]

\* by_sender_query: SELECT sender, COUNT(id) ... GROUP BY sender, as the dict
\* {row.sender: row.count}.
by_sender_query(rows) ==
    [sender \in {rows[i].sender : i \in 1 .. Len(rows)} |->
        CountWhere(rows, LAMBDA m : m.sender = sender)]

\* StatsRepository.get_message_stats() without a day filter (the counts; the
\* average and today's count are left out).
get_message_stats(rows) ==
    LET by_sender == by_sender_query(rows) IN
    [total_messages |-> Len(rows),
     user_messages |-> DictGet(by_sender, "user", 0),
     assistant_messages |-> DictGet(by_sender, "assistant", 0)]

\* The senders of the rows tried: the two the application writes and a
\* third the column admits.
StatSenders == {"user", "assistant", "system"}

\* MessageRepository.create_message(session_id, sender, content).
CreateMessage(session_id, sender) ==
    /\ Len(messages) < MaxStatRows
    /\ session_id \in DOMAIN chat_sessions
    /\ LET r == create_message(messages, {"session_id", "sender", "content"},
                               [session_id |-> session_id, sender |-> sender,
                                content |-> "hello"])
       IN /\ messages' = IF Raised(r) THEN messages ELSE r.rows
          /\ last' = [op |-> "create_message", exc |-> r.exc]
    /\ UNCHANGED <<chat_sessions, next_session_id, session_connections,
                   connection_sessions, sent, ai_calls, users, authVars>>

\* StatsRepository.get_top_active_users(limit).
GetTopActiveUsers(limit) ==
    /\ last' = [op |-> "top_users", limit |-> limit,
                result |-> get_top_active_users(messages, chat_sessions, users, limit)]
    /\ UNCHANGED <<chatVars, users, authVars>>

\* StatsRepository.get_message_stats().
GetMessageStats ==
    /\ last' = [op |-> "message_stats", stats |-> get_message_stats(messages)]
    /\ UNCHANGED <<chatVars, users, authVars>>

\* Two sessions of two cookie users, and no message yet.
InitStats ==
    /\ messages = <<>>
    /\ chat_sessions =
          [s \in SessionIds |->
              [user_id |-> IF s = 1 THEN "u1" ELSE "u2",
               title |-> DEFAULT_SESSION_TITLE, meta |-> DEFAULT_SESSION_META]]
    /\ next_session_id = MaxSessions + 1
    /\ users = InitialUsers
    /\ user_sessions = InitialUserSessions
    /\ next_token = 1
    /\ exchanged = {}
    /\ verification_tokens = <<>>
    /\ SchedulerIdle
    /\ now = 0
    /\ session_connections = EmptyDict
    /\ connection_sessions = EmptyDict
    /\ sent = NothingSent
    /\ ai_calls = 0
    /\ last = NoLast

NextStats ==
    \/ \E sid \in SessionIds, sender \in StatSenders : CreateMessage(sid, sender)
    \/ \E limit \in {1, 5} : GetTopActiveUsers(limit)
    \/ GetMessageStats

SpecStats == InitStats /\ [][NextStats]_vars

----------------------------------------------------------------------------
(* Claims about the statistics.                                            *)

\* The user messages stored for the sessions of a cookie user.
OwnerCount(owner) ==
    CountWhere(messages, LAMBDA m : /\ m.sender = "user"
                                   /\ chat_sessions[m.session_id].user_id = owner)

Owners == {chat_sessions[s].user_id : s \in DOMAIN chat_sessions}

\* C15 (as claimed): get_top_active_users(limit) returns at most limit
\* entries in non-increasing order of message_count, and they are the limit
\* largest: an owner of user messages is either among them with their count
\* or no entry returned counts fewer messages than that owner has.
C15_TopActiveUsers ==
    last.op = "top_users"
    => /\ last.result.exc = None
       /\ LET top == last.result.value IN
          /\ Len(top) <= last.limit
          /\ \A i \in 1 .. Len(top) - 1 :
                top[i].message_count >= top[i + 1].message_count
          /\ \A o \in Owners :
                OwnerCount(o) > 0
                => \/ \E i \in 1 .. Len(top) :
                         /\ top[i].identifier = o
                         /\ top[i].message_count = OwnerCount(o)
                   \/ /\ Len(top) = last.limit
                      /\ \A i \in 1 .. Len(top) :
                            top[i].message_count >= OwnerCount(o)

\* C16: get_message_stats() without a day filter reports the number of
\* stored messages as total_messages and the numbers of rows with sender
\* 'user' and 'assistant'; when no row has another sender the two add up to
\* the total.
C16_MessageStats ==
    last.op = "message_stats"
    => /\ last.stats.total_messages = Len(messages)
       /\ last.stats.user_messages = CountWhere(messages, LAMBDA m : m.sender = "user")
       /\ last.stats.assistant_messages =
             CountWhere(messages, LAMBDA m : m.sender = "assistant")
       /\ (\A i \in 1 .. Len(messages) : messages[i].sender \in {"user", "assistant"})
          => last.stats.user_messages + last.stats.assistant_messages
                = last.stats.total_messages

\* Statistics over a table that holds rows of both senders and nothing else.
C16_Witness ==
    /\ last.op = "message_stats"
    /\ last.stats.user_messages >= 2
    /\ last.stats.assistant_messages >= 1
    /\ last.stats.user_messages + last.stats.assistant_messages = Len(messages)


----------------------------------------------------------------------------
(* The report scheduler: scheduler_service over APScheduler.               *)

\* A scheduler's jobs are a set of [id, trigger]; add_job(...,
\* replace_existing=True) keeps one job per id.

ScheduleTypes == {"weekly", "daily", "disabled"}
DaysOfWeek == {"mon", "sun"}

\* A row of report_schedule.
ScheduleRow(enabled, schedule_type, day_of_week) ==
    [exists |-> TRUE, enabled |-> enabled, schedule_type |-> schedule_type,
     day_of_week |-> day_of_week]

NoTrigger == [kind |-> None, day_of_week |-> None]

\* _build_cron_trigger: the CronTrigger (hour and minute left out), or None.
build_cron_trigger(schedule) ==
    IF ~schedule.enabled \/ schedule.schedule_type = "disabled" THEN NoTrigger
    ELSE IF schedule.schedule_type = "weekly"
    THEN [kind |-> "weekly", day_of_week |-> schedule.day_of_week]
    ELSE IF schedule.schedule_type = "daily"
    THEN [kind |-> "daily", day_of_week |-> "*"]
    ELSE NoTrigger

\* _update_schedule_cache.
update_schedule_cache(schedule) == schedule

\* scheduler.remove_job(id); JobLookupError is swallowed by the caller.
remove_job(sch, id) == [sch EXCEPT !.jobs = {j \in @ : j.id /= id}]

\* scheduler.add_job(func, trigger=trigger, id=id, replace_existing=True).
add_job(sch, id, trigger) ==
    [sch EXCEPT !.jobs = {j \in @ : j.id /= id} \cup {[id |-> id, trigger |-> trigger]}]

\* AsyncIOScheduler() and scheduler.start().
NewScheduler == [exists |-> TRUE, running |-> FALSE, jobs |-> {}]
start(sch) == [sch EXCEPT !.running = TRUE]

\* The schedulers that keep running although the module variable was
\* assigned a new one: `scheduler = AsyncIOScheduler()` shuts nothing down.
Orphaned(orphans, sch) ==
    IF sch.exists /\ sch.running THEN orphans \cup {sch} ELSE orphans

\* start_scheduler(), called where the event loop is running (`in_loop`,
\* as in main.lifespan: run_until_complete and then asyncio.run raise
\* RuntimeError) or where it is not.
StartScheduler(in_loop) ==
    /\ IF in_loop
       THEN /\ last' = [op |-> "start_scheduler", exc |-> "RuntimeError"]
            /\ UNCHANGED <<scheduler, current_schedule, orphaned_schedulers>>
       ELSE LET schedule == report_schedule
                trigger == build_cron_trigger(schedule)
            IN /\ last' = [op |-> "start_scheduler", exc |-> None]
               /\ current_schedule' = update_schedule_cache(schedule)
               /\ IF ~schedule.exists \/ ~schedule.enabled \/ trigger = NoTrigger
                  THEN UNCHANGED <<scheduler, orphaned_schedulers>>
                  ELSE /\ scheduler' = start(add_job(NewScheduler, "admin_report", trigger))
                       /\ orphaned_schedulers' = Orphaned(orphaned_schedulers, scheduler)
    /\ UNCHANGED <<chatVars, users, user_sessions, next_token, now, exchanged,
                   verification_tokens, report_schedule, broadcast>>

\* reschedule_reports(schedule): the module variable afterwards.
reschedule_reports(sch, schedule) ==
    LET removed == IF sch.exists THEN remove_job(sch, "admin_report") ELSE sch
        trigger == build_cron_trigger(schedule)
    IN IF ~schedule.enabled \/ schedule.schedule_type = "disabled"
       THEN NoScheduler
       ELSE IF trigger = NoTrigger THEN removed
       ELSE add_job(IF removed.exists THEN removed ELSE start(NewScheduler),
                    "admin_report", trigger)

\* PUT /admin/reports/schedule by an admin: the row is created if missing
\* (defaults: disabled, weekly, mon), updated from the request, committed,
\* and reschedule_reports runs on it.
UpdateReportSchedule(enabled, schedule_type, day_of_week) ==
    /\ report_schedule' = ScheduleRow(enabled, schedule_type, day_of_week)
    /\ current_schedule' = update_schedule_cache(report_schedule')
    /\ scheduler' = reschedule_reports(scheduler, report_schedule')
    /\ last' = [op |-> "reschedule_reports", schedule |-> report_schedule']
    /\ UNCHANGED <<chatVars, users, user_sessions, next_token, now, exchanged,
                   verification_tokens, orphaned_schedulers, broadcast>>

\* stop_scheduler().
StopScheduler ==
    /\ scheduler' = NoScheduler
    /\ last' = [op |-> "stop_scheduler"]
    /\ UNCHANGED <<chatVars, users, user_sessions, next_token, now, exchanged,
                   verification_tokens, report_schedule, current_schedule,
                   orphaned_schedulers, broadcast>>

\* The process starts over a report_schedule table that is empty or holds
\* the row an earlier run left.
InitScheduler ==
    /\ messages = <<>>
    /\ chat_sessions = EmptyDict
    /\ next_session_id = 1
    /\ users = AdminInitialUsers
    /\ user_sessions = InitialUserSessions
    /\ next_token = 1
    /\ exchanged = {}
    /\ verification_tokens = <<>>
    /\ report_schedule \in {NoSchedule} \cup
          {ScheduleRow(e, t, "mon") : e \in BOOLEAN, t \in ScheduleTypes}
    /\ scheduler = NoScheduler
    /\ current_schedule = NoSchedule
    /\ orphaned_schedulers = {}
    /\ broadcast = NoBroadcast
    /\ now = 0
    /\ session_connections = EmptyDict
    /\ connection_sessions = EmptyDict
    /\ sent = NothingSent
    /\ ai_calls = 0
    /\ last = NoLast

NextScheduler ==
    \/ \E in_loop \in BOOLEAN : StartScheduler(in_loop)
    \/ \E e \in BOOLEAN, t \in ScheduleTypes, d \in DaysOfWeek :
          UpdateReportSchedule(e, t, d)
    \/ StopScheduler

SpecScheduler == InitScheduler /\ [][NextScheduler]_vars

----------------------------------------------------------------------------
(* Claims about the report scheduler.                                      *)

\* The jobs of every scheduler that is running.
RunningJobs ==
    UNION {sch.jobs : sch \in {x \in orphaned_schedulers \cup {scheduler} : x.running}}

\* The trigger the claim expects for a schedule.
ExpectedTrigger(s) ==
    [kind |-> s.schedule_type,
     day_of_week |-> IF s.schedule_type = "weekly" THEN s.day_of_week ELSE "*"]

----------------------------------------------------------------------------
(* The in-memory history of a connection under add_to_history alone.       *)

\* The k-th message of a conversation, as a history entry.
NumberedEntry(k) == [role |-> IF k % 2 = 1 THEN "user" ELSE "assistant", content |-> k]

\* What get_or_create_session hands over at connect time: the entries
\* first..last of the conversation (none if first > last).
LoadedHistory(first, last_) == [i \in 1 .. (last_ - first + 1) |-> NumberedEntry(first + i - 1)]

\* The number of the conversation's next message.
NextNumber ==
    LET h == connection_sessions[1].history
    IN IF h = <<>> THEN 1 ELSE h[Len(h)].content + 1

\* manager.add_to_history(ws, message) with the next message of the
\* conversation; ws may be a connection that is not registered.
AddToHistory(ws) ==
    /\ NextNumber <= HistoryLoadLimit + MaxAdds
    /\ connection_sessions' =
          add_to_history(connection_sessions, ws, NumberedEntry(NextNumber))
    /\ last' = [op |-> "add_to_history", ws |-> ws,
                message |-> NumberedEntry(NextNumber)]
    /\ UNCHANGED <<chat_sessions, messages, next_session_id, session_connections,
                   sent, ai_calls, users, authVars>>

\* Connection 1 is registered to session 1 with a history of at most
\* HistoryLoadLimit entries, loaded at connect time; connection 2 is not
\* registered.
InitHistory ==
    /\ messages = <<>>
    /\ chat_sessions = DictSet(EmptyDict, 1, [user_id |-> "u1",
                                               title |-> DEFAULT_SESSION_TITLE,
                                               meta |-> DEFAULT_SESSION_META])
    /\ next_session_id = 2
    /\ users = InitialUsers
    /\ user_sessions = InitialUserSessions
    /\ next_token = 1
    /\ exchanged = {}
    /\ verification_tokens = <<>>
    /\ SchedulerIdle
    /\ now = 0
    /\ \E n \in 0 .. HistoryLoadLimit :
          LET r == register(EmptyDict, EmptyDict, 1, 1, "u1", None,
                            LoadedHistory(1, n))
          IN /\ session_connections = r.sc
             /\ connection_sessions = r.cs
    /\ sent = NothingSent
    /\ ai_calls = 0
    /\ last = NoLast

NextHistory == \E ws \in Connections : AddToHistory(ws)

SpecHistory == InitHistory /\ [][NextHistory]_vars

----------------------------------------------------------------------------
(* Claims about the in-memory history.                                     *)

\* C18: the history of a connection that was loaded with at most 50
\* messages never holds more than 50; an add_to_history call appends the
\* message and, when that exceeds 50, drops the oldest so that the newest
\* 50 remain in their order.
C18_HistoryWindow ==
    [][LET h == connection_sessions[1].history
           g == connection_sessions'[1].history
           all == Append(h, last'.message)
       IN /\ Len(h) <= 50
          /\ Len(g) <= 50
          /\ (last'.op = "add_to_history" /\ last'.ws = 1)
             => /\ Len(g) = IF Len(all) <= 50 THEN Len(all) ELSE 50
                /\ \A i \in 1 .. Len(g) : g[i] = all[Len(all) - Len(g) + i]]_vars

\* A message was added to a full history: the oldest entry is gone.
C18_Witness ==
    /\ last.op = "add_to_history"
    /\ last.ws = 1
    /\ Len(connection_sessions[1].history) = 50
    /\ connection_sessions[1].history[1].content > 1
    /\ connection_sessions[1].history[50] = last.message

----------------------------------------------------------------------------
(* broadcast_to_session step by step: every `await connection.send_text`   *)
(* suspends the broadcasting handler, and the handlers of the other        *)
(* connections run meanwhile.                                              *)

\* The list the for loop of broadcast_to_session iterates: the list object
\* stored under the session, which disconnect() mutates in place. (It is
\* never deleted during the broadcast: the broadcasting connection is in it.)
BroadcastList == DictGet(session_connections, broadcast.session_id, <<>>)

\* The handler of ws calls broadcast_to_session(current_session_id, message)
\* and reaches the for loop: the list iterator starts at index 0.
BroadcastStart(ws) ==
    /\ ~broadcast.active
    /\ ws \in DOMAIN connection_sessions
    /\ connection_sessions[ws].session_id \in DOMAIN session_connections
    /\ broadcast' = [active |-> TRUE, by |-> ws,
                     session_id |-> connection_sessions[ws].session_id,
                     index |-> 0, delivered |-> {},
                     start_members |->
                        SeqToSet(session_connections[connection_sessions[ws].session_id])]
    /\ last' = [op |-> "broadcast_start", ws |-> ws]
    /\ UNCHANGED <<chatVars, users, user_sessions, next_token, now, exchanged,
                   verification_tokens, schedulerVars>>

\* One pass of the loop: the iterator yields the element at its index of
\* the list as it is now, and the handler is suspended in send_text.
BroadcastSend ==
    /\ broadcast.active
    /\ broadcast.index < Len(BroadcastList)
    /\ broadcast' = [broadcast EXCEPT
                        !.index = @ + 1,
                        !.delivered = @ \cup {BroadcastList[broadcast.index + 1]}]
    /\ last' = [op |-> "broadcast_send", ws |-> BroadcastList[broadcast.index + 1]]
    /\ UNCHANGED <<chatVars, users, user_sessions, next_token, now, exchanged,
                   verification_tokens, schedulerVars>>

\* The iterator's index has reached the length of the list: the loop ends
\* and broadcast_to_session returns.
BroadcastReturn ==
    /\ broadcast.active
    /\ broadcast.index >= Len(BroadcastList)
    /\ broadcast' = NoBroadcast
    /\ last' = [op |-> "broadcast_return", ws |-> broadcast.by,
                sid |-> broadcast.session_id,
                stayed |-> broadcast.start_members \cap SeqToSet(BroadcastList),
                delivered |-> broadcast.delivered]
    /\ UNCHANGED <<chatVars, users, user_sessions, next_token, now, exchanged,
                   verification_tokens, schedulerVars>>

\* The client of ws goes away while its handler waits in receive_text: the
\* handler runs manager.disconnect(ws). The handler that is suspended in
\* the broadcast is not waiting in receive_text.
DisconnectWaiting(ws) ==
    /\ broadcast.active => ws /= broadcast.by
    /\ ClientDisconnect(ws)

\* Every sequence without repetitions over the set S.
Orders(S) ==
    {o \in UNION {[1 .. n -> S] : n \in 0 .. Cardinality(S)} :
        \A i, j \in 1 .. Len(o) : o[i] = o[j] => i = j}

\* The manager after the connections of `order` registered one after the
\* other, each to its session.
RECURSIVE RegisterAll(_, _)
RegisterAll(order, sid_of) ==
    IF order = <<>> THEN [sc |-> EmptyDict, cs |-> EmptyDict]
    ELSE LET n == Len(order)
             before == RegisterAll(SubSeq(order, 1, n - 1), sid_of)
         IN register(before.sc, before.cs, order[n], sid_of[order[n]],
                     "u1", None, <<>>)

\* Some connections are registered, in some order, to the two sessions of
\* cookie user u1.
InitBroadcast ==
    /\ messages = <<>>
    /\ chat_sessions = [sid \in SessionIds |->
                           [user_id |-> "u1", title |-> DEFAULT_SESSION_TITLE,
                            meta |-> DEFAULT_SESSION_META]]
    /\ next_session_id = MaxSessions + 1
    /\ users = InitialUsers
    /\ user_sessions = InitialUserSessions
    /\ next_token = 1
    /\ exchanged = {}
    /\ verification_tokens = <<>>
    /\ SchedulerIdle
    /\ now = 0
    /\ \E order \in Orders(Connections), sid_of \in [Connections -> SessionIds] :
          LET r == RegisterAll(order, sid_of)
          IN /\ session_connections = r.sc
             /\ connection_sessions = r.cs
    /\ sent = NothingSent
    /\ ai_calls = 0
    /\ last = NoLast

NextBroadcast ==
    \/ \E ws \in Connections : BroadcastStart(ws)
    \/ BroadcastSend
    \/ BroadcastReturn
    \/ \E ws \in Connections : DisconnectWaiting(ws)

SpecBroadcast == InitBroadcast /\ [][NextBroadcast]_vars

----------------------------------------------------------------------------
(* Claims about broadcasts under interleaving.                             *)

\* C20 (as claimed): when broadcast_to_session returns, every connection
\* that was registered to the session from the start of the broadcast to
\* its end has been sent the message, whatever connections of the session
\* were disconnected while the broadcast was suspended in a send.
C20_BroadcastReachesAllThatStay ==
    last.op = "broadcast_return" => last.stayed \subseteq last.delivered

====
